---- MODULE Spec2Model ----
(***************************************************************************)
(* Model of the support-agent workflow (agentic/workflow.py), its agents   *)
(* (classifier, resolver, ops, escalation) and the data-store tools they   *)
(* call.  Texts are sequences of symbols: a word, or WS for a whitespace   *)
(* character.  Scores and thresholds are integers in thousandths.          *)
(* An optional value (a dict key that may be missing, or None) is a        *)
(* sequence of length at most one.                                         *)
(***************************************************************************)
EXTENDS Integers, Sequences, FiniteSets, TLC

VARIABLES state, pc, trace, seen, cultpass, udahub, calls

vars == <<state, pc, trace, seen, cultpass, udahub, calls>>

(* ------------------------------ bounds -------------------------------- *)

MaxReplyLen == 2

(* ------------------------------ options ------------------------------- *)

None == <<>>

Some(v) == <<v>>

IsSome(o) == Len(o) > 0

Get(o) == o[1]

GetOr(o, d) == IF Len(o) > 0 THEN o[1] ELSE d

(* ------------------------------- texts -------------------------------- *)

WS == " "

\* Texts of at most n symbols over the words W, two words always separated
\* by whitespace (two adjacent words would be one longer word).
TextsOver(W, n) ==
  { t \in UNION { [1..k -> W \cup {WS}] : k \in 0..n } :
      \A i \in 1..(Len(t) - 1) : t[i] = WS \/ t[i + 1] = WS }

\* str.lower() on one word.
lower_word(w) ==
  CASE w = "Login" -> "login"
    [] w = "OPS" -> "ops"
    [] w = "ESCALATE" -> "escalate"
    [] w = "Escalate" -> "escalate"
    [] w = "Reserve" -> "reserve"
    [] OTHER -> w

\* str.upper() on one word.
upper_word(w) ==
  CASE w = "escalate" -> "ESCALATE"
    [] w = "Escalate" -> "ESCALATE"
    [] w = "login" -> "LOGIN"
    [] w = "Login" -> "LOGIN"
    [] w = "reserve" -> "RESERVE"
    [] w = "Reserve" -> "RESERVE"
    [] w = "hello" -> "HELLO"
    [] w = "ops" -> "OPS"
    [] OTHER -> w

lower(t) == [i \in 1..Len(t) |-> lower_word(t[i])]

\* str.upper that leaves the text as it is.
upper_mut(t) == t

upper(t) == [i \in 1..Len(t) |-> upper_word(t[i])]

RECURSIVE lstrip(_)
lstrip(t) == IF t # <<>> /\ Head(t) = WS THEN lstrip(Tail(t)) ELSE t

RECURSIVE rstrip(_)
rstrip(t) ==
  IF t # <<>> /\ t[Len(t)] = WS THEN rstrip(SubSeq(t, 1, Len(t) - 1)) ELSE t

\* str.strip()
strip(t) == rstrip(lstrip(t))

\* str.split(): the whitespace-delimited tokens, in order.
split(t) == SelectSeq(t, LAMBDA s : s # WS)

(* ------------------------- completion client -------------------------- *)

\* What complete(system, user) can hand its caller: a success carrying a
\* text, a non-success, or (for a caller that guards against it) an exception.
LLMOutcomes(replies) ==
  { [kind |-> "ok", content |-> t] : t \in replies }
    \cup { [kind |-> "fail", content |-> <<>>], [kind |-> "raise", content |-> <<>>] }

NoLLM == [kind |-> "none", content |-> <<>>]

(* ----------------------------- classifier ----------------------------- *)

Labels == {"login", "subscription", "reservation", "knowledge"}

Intents == Labels \cup {"unknown"}

ClassifyWords == {"login", "Login", "subscription", "reservation", "knowledge", "unknown", "hello"}

ClassifyReplies == TextsOver(ClassifyWords, MaxReplyLen)

\* The body of classify's try block: the intent returned, or an exception.
classify_try(llm) ==
  IF llm.kind = "raise" THEN [raised |-> TRUE, intent |-> ""]
  ELSE IF llm.kind = "ok" THEN
    LET toks == split(strip(llm.content)) IN
      IF toks = <<>> THEN [raised |-> TRUE, intent |-> ""]       \* IndexError on [0]
      ELSE IF lower_word(toks[1]) \in Labels
        THEN [raised |-> FALSE, intent |-> lower_word(toks[1])]
        ELSE [raised |-> FALSE, intent |-> "unknown"]
  ELSE [raised |-> FALSE, intent |-> "unknown"]

\* classify without its except clause.
classify_mut(llm) == classify_try(llm)

classify(llm) ==
  IF classify_try(llm).raised
    THEN [raised |-> FALSE, intent |-> "unknown"]                \* except Exception
    ELSE classify_try(llm)

(* -------------------------- knowledge search --------------------------- *)

TopK == 3

\* re.findall(r"[a-zA-Z0-9]+", text.lower()) as a set.
tokens(t) == { lower_word(t[i]) : i \in { j \in 1..Len(t) : t[j] # WS } }

\* round(n / d, 3), in thousandths.
Round3(n, d) == (2000 * n + d) \div (2 * d)

\* _score(text, query): the share of the query's tokens found in the text.
_score(text, query) ==
  IF text = <<>> \/ query = <<>> THEN 0
  ELSE IF tokens(query) = {} THEN 0
  ELSE Round3(Cardinality(tokens(text) \cap tokens(query)), Cardinality(tokens(query)))

Max(a, b) == IF a >= b THEN a ELSE b

\* list.sort(key=score, reverse=True): stable, so an item goes after the
\* items already placed whose score is at least its own.
RECURSIVE InsertDesc(_, _)
InsertDesc(sorted, x) ==
  IF sorted = <<>> THEN <<x>>
  ELSE IF Head(sorted).score >= x.score
    THEN <<Head(sorted)>> \o InsertDesc(Tail(sorted), x)
    ELSE <<x>> \o sorted

RECURSIVE SortDesc(_)
SortDesc(s) ==
  IF s = <<>> THEN <<>> ELSE InsertDesc(SortDesc(SubSeq(s, 1, Len(s) - 1)), s[Len(s)])

\* The scored list of knowledge_search before sorting: the account's rows
\* whose score is positive, in table order.
RECURSIVE scored(_, _, _)
scored(rows, account_id, query) ==
  IF rows = <<>> THEN <<>>
  ELSE
    LET r == Head(rows)
        sc == Max(_score(r.title, query), _score(r.content, query))
        rest == scored(Tail(rows), account_id, query)
    IN IF r.account_id = account_id /\ sc > 0
         THEN <<[article_id |-> r.article_id, title |-> r.title,
                 snippet |-> r.content, score |-> sc]>> \o rest
         ELSE rest

\* knowledge_search reporting the threshold met whenever anything matched.
knowledge_search_mut(rows, account_id, query, top_k, min_confidence) ==
  LET sorted == SortDesc(scored(rows, account_id, query))
      results == SubSeq(sorted, 1, IF Len(sorted) < top_k THEN Len(sorted) ELSE top_k)
      best == IF results # <<>> THEN results[1].score ELSE 0
  IN [ok |-> TRUE, results |-> results, best_score |-> best,
      meets_threshold |-> TRUE]

knowledge_search(rows, account_id, query, top_k, min_confidence) ==
  LET sorted == SortDesc(scored(rows, account_id, query))
      results == SubSeq(sorted, 1, IF Len(sorted) < top_k THEN Len(sorted) ELSE top_k)
      best == IF results # <<>> THEN results[1].score ELSE 0
  IN [ok |-> TRUE, results |-> results, best_score |-> best,
      meets_threshold |-> best >= min_confidence]

(* ------------------------------ resolver ------------------------------ *)

ResolveWords == {"ESCALATE", "escalate", "answer"}

ResolveReplies == TextsOver(ResolveWords, MaxReplyLen)

ResolveFailure(reason, best, results) ==
  [raised |-> FALSE, ok |-> FALSE, reason |-> reason, answer |-> None,
   best_score |-> best, results |-> results]

\* resolve(account_id, query, min_confidence), given whether the knowledge
\* store answers (db_up) and what the completion call hands back.
resolve(rows, db_up, account_id, query, min_confidence, llm) ==
  IF ~db_up
    THEN [raised |-> TRUE, ok |-> FALSE, reason |-> "", answer |-> None,
          best_score |-> None, results |-> None]      \* knowledge_search raised
  ELSE
    LET res == knowledge_search(rows, account_id, query, TopK, min_confidence) IN
      IF ~res.ok THEN ResolveFailure("search_failed", None, None)
      ELSE IF llm.kind = "raise" THEN ResolveFailure("llm_exception", None, None)
      ELSE IF llm.kind = "ok" THEN
        LET content == strip(llm.content) IN
          IF ~res.meets_threshold \/ upper(content) = <<"ESCALATE">>
            THEN ResolveFailure("low_confidence", Some(res.best_score), Some(res.results))
            ELSE [raised |-> FALSE, ok |-> TRUE, reason |-> "", answer |-> Some(content),
                  best_score |-> Some(res.best_score), results |-> Some(res.results)]
      ELSE ResolveFailure("llm_failed", None, None)

(* ------------------------- cultpass data store ------------------------ *)

\* ToolResult(ok, data, error)
Ok(data) == [ok |-> TRUE, data |-> Some(data), error |-> None]

Err(code, message) ==
  [ok |-> FALSE, data |-> None, error |-> Some([code |-> code, message |-> message])]

\* Python's None where an identifier is expected: it matches no row.
NoneId == "None"

\* str(uuid.uuid4())[:6]: an identifier no earlier reservation carries.
ReservationIds == <<"r1", "r2", "r3", "r4", "r5">>

NewReservationId(db) == ReservationIds[Len(db.reservations) + 1]

get_user_profile(db, external_user_id) ==
  IF external_user_id \notin DOMAIN db.users
    THEN Err("NOT_FOUND", "User not found")
    ELSE Ok([repr |-> "profile", user_id |-> external_user_id,
             is_blocked |-> db.users[external_user_id].is_blocked])

\* The reserved-status reservations of the user created in the current month.
used_this_month(db, user_id) ==
  Cardinality({ i \in 1..Len(db.reservations) :
                  /\ db.reservations[i].user_id = user_id
                  /\ db.reservations[i].this_month
                  /\ db.reservations[i].status = "reserved" })

get_subscription_status(db, user_id) ==
  IF user_id \notin DOMAIN db.subs
    THEN Err("NO_SUB", "Subscription not found")
    ELSE
      LET sub == db.subs[user_id]
          used == used_this_month(db, user_id)
      IN Ok([repr |-> "subscription", status |-> sub.status,
             monthly_quota |-> sub.monthly_quota, used_this_month |-> used,
             remaining_quota |-> Max(0, sub.monthly_quota - used)])

list_reservations(db, user_id, upcoming_only) ==
  LET keep(r) == /\ r.user_id = user_id
                 /\ r.experience_id \in DOMAIN db.slots
                 /\ (upcoming_only => db.upcoming[r.experience_id])
  IN Ok([repr |-> "reservations", reservations |-> SelectSeq(db.reservations, keep)])

\* One call of reserve_experience or cancel_reservation in progress: where it
\* is, its arguments, what it has read, and its ToolResult once it returned.
Frame(op, user_id, experience_id, reservation_id) ==
  [op |-> op, pc |-> IF op = "reserve" THEN "user" ELSE "find",
   user_id |-> user_id, experience_id |-> experience_id,
   reservation_id |-> reservation_id, slots_read |-> 0, ret |-> None]

Return(f, result) == [f EXCEPT !.pc = "done", !.ret = Some(result)]

\* reserve_experience without the test of the remaining quota.
reserve_step_mut(f, db) ==
  CASE f.pc = "user" ->
         [db |-> db,
          f |-> IF f.user_id \notin DOMAIN db.users
                  THEN Return(f, Err("USER_NOT_FOUND", "User not found"))
                ELSE IF db.users[f.user_id].is_blocked
                  THEN Return(f, Err("BLOCKED", "User is blocked"))
                ELSE [f EXCEPT !.pc = "sub"]]
    [] f.pc = "sub" ->
         [db |-> db,
          f |-> IF f.user_id \notin DOMAIN db.subs \/ db.subs[f.user_id].status # "active"
                  THEN Return(f, Err("INACTIVE_SUB", "Subscription inactive"))
                  ELSE [f EXCEPT !.pc = "status"]]
    [] f.pc = "status" ->
         [db |-> db, f |-> [f EXCEPT !.pc = "exp"]]
    [] f.pc = "exp" ->
         [db |-> db,
          f |-> IF f.experience_id \notin DOMAIN db.slots
                  THEN Return(f, Err("EXP_NOT_FOUND", "Experience not found"))
                ELSE IF db.slots[f.experience_id] <= 0
                  THEN Return(f, Err("NO_SLOTS", "No slots available"))
                ELSE [f EXCEPT !.pc = "commit", !.slots_read = db.slots[f.experience_id]]]
    [] f.pc = "commit" ->
         LET rid == NewReservationId(db) IN
         [db |-> [db EXCEPT !.slots[f.experience_id] = f.slots_read - 1,
                            !.reservations = Append(@,
                               [reservation_id |-> rid, user_id |-> f.user_id,
                                experience_id |-> f.experience_id,
                                status |-> "reserved", this_month |-> TRUE])],
          f |-> Return(f, Ok([repr |-> "reservation", reservation_id |-> rid,
                              status |-> "reserved"]))]

\* reserve_experience, one data-store access at a time.  The session reads
\* outside any transaction; the commit writes the slot count computed from
\* the value read earlier, and the new reservation.
reserve_step(f, db) ==
  CASE f.pc = "user" ->
         [db |-> db,
          f |-> IF f.user_id \notin DOMAIN db.users
                  THEN Return(f, Err("USER_NOT_FOUND", "User not found"))
                ELSE IF db.users[f.user_id].is_blocked
                  THEN Return(f, Err("BLOCKED", "User is blocked"))
                ELSE [f EXCEPT !.pc = "sub"]]
    [] f.pc = "sub" ->
         [db |-> db,
          f |-> IF f.user_id \notin DOMAIN db.subs \/ db.subs[f.user_id].status # "active"
                  THEN Return(f, Err("INACTIVE_SUB", "Subscription inactive"))
                  ELSE [f EXCEPT !.pc = "status"]]
    [] f.pc = "status" ->
         [db |-> db,
          f |-> LET status == get_subscription_status(db, f.user_id) IN
                  IF ~status.ok \/ Get(status.data).remaining_quota <= 0
                    THEN Return(f, Err("NO_QUOTA", "Monthly quota exhausted"))
                    ELSE [f EXCEPT !.pc = "exp"]]
    [] f.pc = "exp" ->
         [db |-> db,
          f |-> IF f.experience_id \notin DOMAIN db.slots
                  THEN Return(f, Err("EXP_NOT_FOUND", "Experience not found"))
                ELSE IF db.slots[f.experience_id] <= 0
                  THEN Return(f, Err("NO_SLOTS", "No slots available"))
                ELSE [f EXCEPT !.pc = "commit", !.slots_read = db.slots[f.experience_id]]]
    [] f.pc = "commit" ->
         LET rid == NewReservationId(db) IN
         [db |-> [db EXCEPT !.slots[f.experience_id] = f.slots_read - 1,
                            !.reservations = Append(@,
                               [reservation_id |-> rid, user_id |-> f.user_id,
                                experience_id |-> f.experience_id,
                                status |-> "reserved", this_month |-> TRUE])],
          f |-> Return(f, Ok([repr |-> "reservation", reservation_id |-> rid,
                              status |-> "reserved"]))]

\* The row cancel_reservation's filter_by(reservation_id, user_id) finds, or 0.
find_reservation(db, reservation_id, user_id) ==
  LET hits == { i \in 1..Len(db.reservations) :
                  /\ db.reservations[i].reservation_id = reservation_id
                  /\ db.reservations[i].user_id = user_id }
  IN IF hits = {} THEN 0 ELSE CHOOSE i \in hits : \A j \in hits : i <= j

\* cancel_reservation without the test of the reservation's status.
cancel_step_mut(f, db) ==
  CASE f.pc = "find" ->
         LET i == find_reservation(db, f.reservation_id, f.user_id) IN
         [db |-> db,
          f |-> IF i = 0 THEN Return(f, Err("NOT_FOUND", "Reservation not found"))
                ELSE [f EXCEPT !.pc = "write",
                               !.experience_id = db.reservations[i].experience_id]]
    [] f.pc = "write" ->
         LET i == find_reservation(db, f.reservation_id, f.user_id)
             e == f.experience_id
             db1 == [db EXCEPT !.reservations[i].status = "cancelled"]
         IN
         [db |-> IF e \in DOMAIN db.slots
                   THEN [db1 EXCEPT !.slots[e] = db.slots[e] + 1]
                   ELSE db1,
          f |-> Return(f, Ok([repr |-> "reservation", reservation_id |-> f.reservation_id,
                              status |-> "cancelled"]))]

\* cancel_reservation: the read of the reservation, then the write (the
\* status update is flushed before the experience is read, so the experience
\* is read and written inside the write transaction).
cancel_step(f, db) ==
  CASE f.pc = "find" ->
         LET i == find_reservation(db, f.reservation_id, f.user_id) IN
         [db |-> db,
          f |-> IF i = 0 THEN Return(f, Err("NOT_FOUND", "Reservation not found"))
                ELSE IF db.reservations[i].status # "reserved"
                  THEN Return(f, Err("INVALID_STATE", "Reservation not active"))
                ELSE [f EXCEPT !.pc = "write",
                               !.experience_id = db.reservations[i].experience_id]]
    [] f.pc = "write" ->
         LET i == find_reservation(db, f.reservation_id, f.user_id)
             e == f.experience_id
             db1 == [db EXCEPT !.reservations[i].status = "cancelled"]
         IN
         [db |-> IF e \in DOMAIN db.slots
                   THEN [db1 EXCEPT !.slots[e] = db.slots[e] + 1]
                   ELSE db1,
          f |-> Return(f, Ok([repr |-> "reservation", reservation_id |-> f.reservation_id,
                              status |-> "cancelled"]))]

\* The dispatch to a cancel_reservation that does not test the status.
step_mut(f, db) == IF f.op = "reserve" THEN reserve_step(f, db) ELSE cancel_step_mut(f, db)

step(f, db) == IF f.op = "reserve" THEN reserve_step(f, db) ELSE cancel_step(f, db)

\* A call run from its first statement to its return with no other call's
\* data-store access in between.
RECURSIVE run_call(_, _)
run_call(f, db) ==
  IF f.pc = "done" THEN [f |-> f, db |-> db]
  ELSE LET n == step(f, db) IN run_call(n.f, n.db)

reserve_experience(db, user_id, experience_id) ==
  LET r == run_call(Frame("reserve", user_id, experience_id, NoneId), db)
  IN [ret |-> Get(r.f.ret), db |-> r.db]

cancel_reservation(db, reservation_id, user_id) ==
  LET r == run_call(Frame("cancel", user_id, NoneId, reservation_id), db)
  IN [ret |-> Get(r.f.ret), db |-> r.db]

(* ------------------------- operations dispatcher ---------------------- *)

ToolNames == {"get_user_profile", "get_subscription_status", "list_reservations",
              "reserve_experience", "cancel_reservation"}

ContextWhitelist == {"user_id", "experience_id", "reservation_id", "external_user_id"}

EmptyArgs == [k \in {} |-> NoneId]

\* The model's reply as json.loads sees it: text that is no JSON ("invalid"),
\* a JSON value that is no object ("array"), or an object whose "action" and
\* "args" members are missing (None) or carry a value: a string ("str", s),
\* null ("null"), a list ("list"), an object ("obj", m: a map from keys to values).
JsonStr(s) == [t |-> "str", s |-> s, m |-> EmptyArgs]

JsonNull == [t |-> "null", s |-> "", m |-> EmptyArgs]

JsonList == [t |-> "list", s |-> "", m |-> EmptyArgs]

JsonObj(m) == [t |-> "obj", s |-> "", m |-> m]

JsonDoc(json, action, args) == [json |-> json, action |-> action, args |-> args]

OpsError(code, message) == Err(code, message)

\* The required keys each TOOL_MAP lambda subscripts.
RequiredArgs(action) ==
  CASE action = "get_user_profile" -> {"external_user_id"}
    [] action = "get_subscription_status" -> {"user_id"}
    [] action = "list_reservations" -> {"user_id"}
    [] action = "reserve_experience" -> {"user_id", "experience_id"}
    [] action = "cancel_reservation" -> {"reservation_id", "user_id"}

\* TOOL_MAP[action](a) on the data store db: the ToolResult's __dict__ and
\* the data store afterwards.
TOOL_MAP(action, a, db) ==
  CASE action = "get_user_profile" ->
         [ret |-> get_user_profile(db, a["external_user_id"]), db |-> db]
    [] action = "get_subscription_status" ->
         [ret |-> get_subscription_status(db, a["user_id"]), db |-> db]
    [] action = "list_reservations" ->
         [ret |-> list_reservations(db, a["user_id"],
                    IF "upcoming_only" \in DOMAIN a
                      THEN a["upcoming_only"] \notin {"false", NoneId}
                      ELSE TRUE),
          db |-> db]
    [] action = "reserve_experience" ->
         reserve_experience(db, a["user_id"], a["experience_id"])
    [] action = "cancel_reservation" ->
         cancel_reservation(db, a["reservation_id"], a["user_id"])

\* The merge without the whitelist filter and with the context taking
\* precedence.
merge_args_mut(context, args) ==
  [k \in (DOMAIN context) \cup (DOMAIN args) |->
     IF k \in DOMAIN context THEN context[k] ELSE args[k]]

\* {**{k: v for k, v in context.items() if k in whitelist}, **args}
merge_args(context, args) ==
  [k \in ((DOMAIN context) \cap ContextWhitelist) \cup (DOMAIN args) |->
     IF k \in DOMAIN args THEN args[k] ELSE context[k]]

\* operate without its except clause: the exception leaves operate.
Caught_mut(db) ==
  [raised |-> TRUE, ret |-> OpsError("LLM_OR_TOOL_ERROR", "exception"), db |-> db,
   invoked |-> "", merged |-> EmptyArgs]

\* The except clause of operate: whatever the try block raised is returned
\* as an error dict.
Caught(db) ==
  [raised |-> FALSE, ret |-> OpsError("LLM_OR_TOOL_ERROR", "exception"), db |-> db,
   invoked |-> "", merged |-> EmptyArgs]

\* Without the membership test the lookup TOOL_MAP[action] raises KeyError,
\* which the except clause reports.
bad_action_mut(action, db) == Caught(db)

\* The return of operate when action is not in TOOL_MAP.
bad_action(action, db) ==
  [raised |-> FALSE,
   ret |-> OpsError("BAD_ACTION", IF action.t = "str" THEN action.s ELSE NoneId),
   db |-> db, invoked |-> "", merged |-> EmptyArgs]

\* operate(message, context): whether an exception left it, the dict returned,
\* the data store afterwards, and the executor that was invoked ("" when none
\* was) with its arguments.
operate(context, llm, db, db_up) ==
  IF llm.kind = "raise" THEN Caught(db)
  ELSE IF llm.kind # "ok"
    THEN [raised |-> FALSE, ret |-> OpsError("LLM_ERROR", "llm error"), db |-> db,
          invoked |-> "", merged |-> EmptyArgs]
  ELSE
    LET parsed == llm.content IN
      IF parsed.json # "object" THEN Caught(db)       \* JSONDecodeError, AttributeError
      ELSE
        LET action == IF IsSome(parsed.action) THEN Get(parsed.action) ELSE JsonNull
            args == IF IsSome(parsed.args) THEN Get(parsed.args) ELSE JsonObj(EmptyArgs)
        IN
          IF action.t = "list" THEN Caught(db)        \* TypeError: unhashable
          ELSE IF action.t # "str" \/ action.s \notin ToolNames
            THEN bad_action(action, db)
          ELSE IF args.t # "obj" THEN Caught(db)      \* TypeError: not a mapping
          ELSE
            LET merged == merge_args(context, args.m) IN
              IF ~(RequiredArgs(action.s) \subseteq DOMAIN merged)
                THEN [Caught(db) EXCEPT !.invoked = action.s, !.merged = merged]  \* KeyError
              ELSE IF ~db_up
                THEN [Caught(db) EXCEPT !.invoked = action.s, !.merged = merged]
              ELSE
                LET r == TOOL_MAP(action.s, merged, db) IN
                  [raised |-> FALSE, ret |-> r.ret, db |-> r.db, invoked |-> action.s,
                   merged |-> merged]

(* --------------------------- escalation handler ----------------------- *)

EscalationFallback == <<"Escalation required.">>

EscalationExceptionFallback ==
  <<"Escalation required due to low confidence or policy guardrail.">>

ReasonReplies == { <<"because">>, <<WS, "because", WS>> }

\* What escalate_to_vocareum can return.
VocareumOutcomes ==
  { [ok |-> TRUE, data |-> Some([repr |-> "response"]), error |-> None],
    Err("NO_BASE_URL", "VOCAREUM_BASE_URL not set"),
    Err("HTTP_ERROR", "response text"),
    Err("EXCEPTION", "exception") }

\* append_ticket_message(ticket_id, role, content) on the ticket store.
append_ticket_message(db, ticket_id, role, content) ==
  [db EXCEPT !.messages = Append(@, [ticket_id |-> ticket_id, role |-> role,
                                     content |-> content])]

\* escalate_ticket(ticket_id, reason, last_confidence): ToolResult and store.
escalate_ticket(db, ticket_id, reason) ==
  IF ticket_id \notin DOMAIN db.tickets
    THEN [ret |-> Err("NOT_FOUND", "Ticket metadata not found"), db |-> db]
    ELSE [ret |-> Ok([repr |-> "status", status |-> "escalated"]),
          db |-> [db EXCEPT !.tickets[ticket_id] = "escalated",
                            !.messages = Append(@, [ticket_id |-> ticket_id,
                                                    role |-> "system",
                                                    content |-> <<"Escalated:">> \o reason])]]

\* The reason sentence of escalate's first step.
escalation_reason(llm) ==
  IF llm.kind = "raise" THEN EscalationExceptionFallback
  ELSE IF llm.kind = "ok" THEN strip(llm.content)
  ELSE EscalationFallback

NoResult == [ok |-> FALSE, data |-> None, error |-> None]

\* escalate(ticket_id, user_message, context, last_confidence).  env gives
\* the completion outcome, whether each ticket-store call goes through
\* (append_up, ticket_up: a store error raises) and the notification result.
\* attempted lists the outbound calls made, in order.
escalate(db, ticket_id, env) ==
  LET reason == escalation_reason(env.llm)
      content == <<"Escalation requested:">> \o reason
  IN
    IF ~env.append_up
      THEN [raised |-> TRUE, udahub |-> NoResult, vocareum |-> NoResult,
            reason |-> reason, db |-> db,
            attempted |-> <<"append_ticket_message">>]
    ELSE
      LET db1 == append_ticket_message(db, ticket_id, "system", content) IN
        IF ~env.ticket_up
          THEN [raised |-> TRUE, udahub |-> NoResult, vocareum |-> NoResult,
                reason |-> reason, db |-> db1,
                attempted |-> <<"append_ticket_message", "escalate_ticket">>]
          ELSE
            LET res == escalate_ticket(db1, ticket_id, reason) IN
              [raised |-> FALSE, udahub |-> res.ret, vocareum |-> env.vocareum,
               reason |-> reason, db |-> res.db,
               attempted |-> <<"append_ticket_message", "escalate_ticket",
                               "escalate_to_vocareum">>]

(* ------------------------------ workflow ------------------------------ *)

DefaultMinConfidence == 600

ResolveDefaultMinConfidence == 550

Human(t) == [role |-> "human", content |-> t]

AI(t) == [role |-> "ai", content |-> t]

EscalatingNotice == <<"I'll escalate this for a specialist to review.">>

EscalatedNotice == <<"I've escalated this to human support.">>

\* _extract_last_content(messages): the content of the first entry from the
\* end that is a HumanMessage or carries a content attribute (an AIMessage
\* does); an entry with neither is skipped.  None when there is none.
RECURSIVE _extract_last_content(_)
_extract_last_content(messages) ==
  IF messages = <<>> THEN None
  ELSE
    LET m == messages[Len(messages)] IN
      IF m.role = "human" THEN Some(m.content)
      ELSE IF m.role = "ai" THEN Some(m.content)
      ELSE _extract_last_content(SubSeq(messages, 1, Len(messages) - 1))

\* _append_ai_message that starts a new list instead of appending.
_append_ai_message_mut(st, text) ==
  [st EXCEPT !.messages = Some(<<[role |-> "ai", content |-> text]>>)]

\* _append_ai_message(state, text)
_append_ai_message(st, text) ==
  [st EXCEPT !.messages = Some(Append(GetOr(st.messages, <<>>), AI(text)))]

\* "input" not in state or not state["input"]
NoInput(st) == ~IsSome(st.input) \/ Get(st.input) = <<>>

\* _node_prepare that assigns the default user instead of setdefault.
_node_prepare_mut(st) ==
  LET messages == GetOr(st.messages, <<>>)
      input == IF NoInput(st)
                 THEN IF messages # <<>>
                        THEN Some(GetOr(_extract_last_content(messages), <<>>))
                        ELSE Some(<<>>)
                 ELSE st.input
  IN [st EXCEPT !.input = input,
                !.account_id = IF IsSome(@) THEN @ ELSE Some("cultpass"),
                !.user_id = Some("a4ab87"),
                !.min_confidence = IF IsSome(@) THEN @ ELSE Some(DefaultMinConfidence),
                !.ticket_id = IF IsSome(@) THEN @ ELSE Some("unknown")]

_node_prepare(st) ==
  LET messages == GetOr(st.messages, <<>>)
      input == IF NoInput(st)
                 THEN IF messages # <<>>
                        THEN Some(GetOr(_extract_last_content(messages), <<>>))
                        ELSE Some(<<>>)
                 ELSE st.input
  IN [st EXCEPT !.input = input,
                !.account_id = IF IsSome(@) THEN @ ELSE Some("cultpass"),
                !.user_id = IF IsSome(@) THEN @ ELSE Some("a4ab87"),
                !.min_confidence = IF IsSome(@) THEN @ ELSE Some(DefaultMinConfidence),
                !.ticket_id = IF IsSome(@) THEN @ ELSE Some("unknown")]

_node_classify(st, llm) ==
  LET input == IF NoInput(st)
                 THEN Some(GetOr(_extract_last_content(GetOr(st.messages, <<>>)), <<>>))
                 ELSE st.input
      c == classify(llm)
  IN [st EXCEPT !.input = input,
                !.intent = Some(IF c.raised THEN "unknown" ELSE c.intent)]

\* _node_resolve that also records a failure as an escalation.
_node_resolve_mut(st, r) ==
  LET st1 == [st EXCEPT !.resolver_result = Some(r)] IN
    IF r.ok THEN _append_ai_message(st1, GetOr(r.answer, <<>>))
            ELSE _append_ai_message(
                   [st1 EXCEPT !.escalation = Some([udahub |-> NoResult, vocareum |-> NoResult,
                                                    reason |-> <<>>])],
                   EscalatingNotice)

\* _node_resolve, given resolve's returned dict r.
_node_resolve(st, r) ==
  LET st1 == [st EXCEPT !.resolver_result = Some(r)] IN
    IF r.ok THEN _append_ai_message(st1, GetOr(r.answer, <<>>))
            ELSE _append_ai_message(st1, EscalatingNotice)

\* The context dict _node_ops hands operate.  experience_id and
\* reservation_id are no keys of State, so state.get gives None for them.
ops_context(st) ==
  [k \in {"user_id", "external_user_id", "experience_id", "reservation_id", "account_id"} |->
     CASE k \in {"user_id", "external_user_id"} -> GetOr(st.user_id, NoneId)
       [] k = "account_id" -> GetOr(st.account_id, NoneId)
       [] OTHER -> NoneId]

\* _node_ops that stores the dict under resolver_result as well.
_node_ops_mut(st, r) ==
  LET st1 == [st EXCEPT !.ops_result = Some(r),
                        !.resolver_result =
                           Some([raised |-> FALSE, ok |-> r.ok, reason |-> None,
                                 answer |-> None, best_score |-> None, results |-> None])]
  IN _append_ai_message(st1, <<"Done:">>)

\* _node_ops, given operate's returned dict r.
_node_ops(st, r) ==
  LET st1 == [st EXCEPT !.ops_result = Some(r)] IN
    IF r.ok
      THEN _append_ai_message(st1,
             <<"Done:", WS, IF IsSome(r.data) THEN Get(r.data).repr ELSE "None">>)
      ELSE _append_ai_message(st1,
             <<"Operation failed:", WS, IF IsSome(r.error) THEN Get(r.error).code ELSE "None">>)

\* _node_escalate that appends no notice at all.
_node_escalate_silent(st, e) ==
  IF e.raised
    THEN st
    ELSE [st EXCEPT !.escalation = Some([udahub |-> e.udahub, vocareum |-> e.vocareum,
                                         reason |-> e.reason])]

\* _node_escalate whose except branch only logs.
_node_escalate_mut(st, e) ==
  IF e.raised
    THEN st
    ELSE _append_ai_message(
           [st EXCEPT !.escalation = Some([udahub |-> e.udahub, vocareum |-> e.vocareum,
                                           reason |-> e.reason])],
           EscalatedNotice)

\* _node_escalate, given escalate's outcome e (its dict, or an exception).
_node_escalate(st, e) ==
  IF e.raised
    THEN _append_ai_message(st, EscalatedNotice)
    ELSE _append_ai_message(
           [st EXCEPT !.escalation = Some([udahub |-> e.udahub, vocareum |-> e.vocareum,
                                           reason |-> e.reason])],
           EscalatedNotice)

\* LangChainRouter.route_by_intent
route_by_intent(st) ==
  LET intent == GetOr(st.intent, "unknown") IN
    CASE intent = "unknown" -> "escalate"
      [] intent \in {"reservation", "subscription"} -> "ops"
      [] intent \in {"knowledge", "login"} -> "resolve"
      [] OTHER -> "escalate"

\* route_by_confidence with the test inverted.
route_by_confidence_mut(st) ==
  IF ~IsSome(st.resolver_result) \/ ~Get(st.resolver_result).ok THEN "end" ELSE "escalate"

\* LangChainRouter.route_by_confidence
route_by_confidence(st) ==
  IF ~IsSome(st.resolver_result) \/ ~Get(st.resolver_result).ok THEN "escalate" ELSE "end"

Routes == {"escalate", "ops", "resolve"}

RouteWords == {"escalate", "ops", "OPS", "resolve", "hello"}

RouteReplies == TextsOver(RouteWords, MaxReplyLen)

\* intelligent_route that returns whatever single word the model replied.
intelligent_route_mut(st, llm) ==
  IF llm.kind = "ok" /\ Len(lower(strip(llm.content))) = 1
    THEN lower(strip(llm.content))[1]
    ELSE route_by_intent(st)

\* LangChainRouter.intelligent_route, which _should_route_to_ops returns.
intelligent_route(st, llm) ==
  IF llm.kind = "ok" /\ Len(lower(strip(llm.content))) = 1
       /\ lower(strip(llm.content))[1] \in Routes
    THEN lower(strip(llm.content))[1]
    ELSE route_by_intent(st)

\* A conditional edge after classify that always ends the run.
_should_route_to_ops_mut(st, llm) == "end"

_should_route_to_ops(st, llm) == intelligent_route(st, llm)

_should_escalate(st) == route_by_confidence(st)

(* --------------------------- initial states --------------------------- *)

Queries == { <<"reserve">>, <<"how", WS, "Login">>, <<"hello">>,
             <<"how", WS, "Reserve", WS, "hello">> }

\* The knowledge table of the ticket store (no operation writes it).
KnowledgeRows ==
  << [article_id |-> "a1", account_id |-> "cultpass", title |-> <<"login">>,
      content |-> <<"password", WS, "reset">>],
     [article_id |-> "a2", account_id |-> "cultpass", title |-> <<"Reserve">>,
      content |-> <<"how", WS, "to", WS, "reserve">>],
     [article_id |-> "a3", account_id |-> "other", title |-> <<"hello">>,
      content |-> <<"hello">>] >>

InitUdahub ==
  [tickets |-> [t \in {"t1"} |-> "open"], messages |-> <<>>]

\* Users a4ab87 and u3 hold active subscriptions, u2 is blocked, u4 has an
\* inactive subscription, u5 has none; experience e1 has slots1 free slots,
\* e2 has none.
InitCultpass(slots1, quota) ==
  [users |-> [u \in {"a4ab87", "u2", "u3", "u4", "u5"} |-> [is_blocked |-> (u = "u2")]],
   subs |-> [u \in {"a4ab87", "u2", "u3", "u4"} |->
               [status |-> IF u = "u4" THEN "cancelled" ELSE "active",
                monthly_quota |-> quota]],
   slots |-> [e \in {"e1", "e2"} |-> IF e = "e1" THEN slots1 ELSE 0],
   upcoming |-> [e \in {"e1", "e2"} |-> (e = "e1")],
   reservations |-> << [reservation_id |-> "r1", user_id |-> "a4ab87",
                        experience_id |-> "e1", status |-> "reserved",
                        this_month |-> TRUE] >>]

InitMessages ==
  {None} \cup { Some(<<Human(q)>>) : q \in Queries }
         \cup { Some(<<Human(<<"reserve">>), AI(EscalatedNotice)>>) }

InitInputs == {None, Some(<<>>), Some(<<"how", WS, "Login">>)}

InitMinConfidences == {None, Some(0), Some(1000)}

\* The state a caller hands the compiled graph on a fresh thread.
InitStates ==
  { [messages |-> m, input |-> i, intent |-> None,
     account_id |-> IF ids THEN Some("cultpass") ELSE None,
     user_id |-> IF ids THEN Some("u3") ELSE None,
     min_confidence |-> c,
     ticket_id |-> IF ids THEN Some("t1") ELSE None,
     resolver_result |-> None, ops_result |-> None, escalation |-> None] :
    m \in InitMessages, i \in InitInputs, c \in InitMinConfidences, ids \in BOOLEAN }

NoCalls == <<>>

Init ==
  /\ state \in InitStates
  /\ pc = "prepare"
  /\ trace = <<>>
  /\ seen = [node |-> "none"]
  /\ cultpass = InitCultpass(1, 2)
  /\ udahub = InitUdahub
  /\ calls = NoCalls

(* ------------------------------- engine ------------------------------- *)

Prepare ==
  /\ pc = "prepare"
  /\ state' = _node_prepare(state)
  /\ pc' = "classify"
  /\ trace' = Append(trace, "prepare")
  /\ seen' = [node |-> "prepare", before |-> state,
              len0 |-> Len(GetOr(state.messages, <<>>))]
  /\ UNCHANGED <<cultpass, udahub, calls>>

Classify ==
  /\ pc = "classify"
  /\ \E llm \in LLMOutcomes(ClassifyReplies) :
       /\ state' = _node_classify(state, llm)
       /\ seen' = [node |-> "classify", before |-> state, llm |-> llm,
                   ret |-> classify(llm), len0 |-> seen.len0]
  /\ pc' = "route_classify"
  /\ trace' = Append(trace, "classify")
  /\ UNCHANGED <<cultpass, udahub, calls>>

\* The conditional edge after classify.
RouteAfterClassify ==
  /\ pc = "route_classify"
  /\ \E llm \in LLMOutcomes(RouteReplies) :
       /\ pc' = _should_route_to_ops(state, llm)
       /\ seen' = [node |-> "route_classify", before |-> state, llm |-> llm,
                   len0 |-> seen.len0]
  /\ UNCHANGED <<state, trace, cultpass, udahub, calls>>

\* What resolve meets: the knowledge store down (the completion call is
\* then never made), or up with some completion outcome.
ResolveEnvs ==
  { [db_up |-> TRUE, llm |-> l] : l \in LLMOutcomes(ResolveReplies) }
    \cup { [db_up |-> FALSE, llm |-> NoLLM] }

Resolve ==
  /\ pc = "resolve"
  /\ \E env \in ResolveEnvs :
       LET llm == env.llm
           db_up == env.db_up
           account_id == Get(state.account_id)
           query == Get(state.input)
           min_confidence == GetOr(state.min_confidence, ResolveDefaultMinConfidence)
           r == resolve(KnowledgeRows, db_up, account_id, query, min_confidence, llm)
       IN
         /\ seen' = [node |-> "resolve", before |-> state, llm |-> llm, db_up |-> db_up,
                     min_confidence |-> min_confidence,
                     search |-> knowledge_search(KnowledgeRows, account_id, query,
                                                 TopK, min_confidence),
                     ret |-> r, len0 |-> seen.len0]
         /\ IF r.raised
              THEN /\ pc' = "raised"             \* the exception leaves the run
                   /\ UNCHANGED state
              ELSE /\ pc' = "route_resolve"
                   /\ state' = _node_resolve(state, r)
  /\ trace' = Append(trace, "resolve")
  /\ UNCHANGED <<cultpass, udahub, calls>>

\* The conditional edge after resolve.
RouteAfterResolve ==
  /\ pc = "route_resolve"
  /\ pc' = _should_escalate(state)
  /\ seen' = [node |-> "route_resolve", before |-> state, len0 |-> seen.len0]
  /\ UNCHANGED <<state, trace, cultpass, udahub, calls>>

\* The replies the tool-selection completion can give.
OpsActions ==
  {None, Some(JsonNull), Some(JsonList)}
    \cup { Some(JsonStr(n)) : n \in ToolNames \cup {"delete_account"} }

OpsArgObjs ==
  { EmptyArgs, "experience_id" :> "e1",
    ("user_id" :> "a4ab87") @@ ("reservation_id" :> "r1"),
    ("user_id" :> "u2") @@ ("upcoming_only" :> "false") }

OpsArgs == {None, Some(JsonNull)} \cup { Some(JsonObj(a)) : a \in OpsArgObjs }

OpsDocs ==
  { JsonDoc("invalid", None, None), JsonDoc("array", None, None) }
    \cup { JsonDoc("object", a, g) : a \in OpsActions, g \in OpsArgs }

\* The outcomes of the tool-selection completion call.
OpsLLMOutcomes ==
  { [kind |-> "ok", content |-> d] : d \in OpsDocs }
    \cup { [kind |-> k, content |-> JsonDoc("invalid", None, None)] : k \in {"fail", "raise"} }

\* Whether the reply makes operate reach an executor: only then does the
\* data store's availability matter.
ReachesExecutor(llm) ==
  /\ llm.kind = "ok"
  /\ llm.content.json = "object"
  /\ IsSome(llm.content.action)
  /\ Get(llm.content.action).t = "str"
  /\ Get(llm.content.action).s \in ToolNames

Ops ==
  /\ pc = "ops"
  /\ \E llm \in OpsLLMOutcomes :
     \E db_up \in IF ReachesExecutor(llm) THEN BOOLEAN ELSE {TRUE} :
       LET r == operate(ops_context(state), llm, cultpass, db_up) IN
         /\ cultpass' = r.db
         /\ seen' = [node |-> "ops", before |-> state, llm |-> llm, ret |-> r.ret,
                     invoked |-> r.invoked, merged |-> r.merged,
                     context |-> ops_context(state), db_before |-> cultpass,
                     raised |-> r.raised, len0 |-> seen.len0]
         /\ IF r.raised
              THEN /\ pc' = "raised"             \* the exception leaves the run
                   /\ UNCHANGED state
              ELSE /\ pc' = "end"
                   /\ state' = _node_ops(state, r.ret)
  /\ trace' = Append(trace, "ops")
  /\ UNCHANGED <<udahub, calls>>

\* What escalate meets: a completion outcome, and either a ticket-store
\* error at the append, or one at the status update, or both going through
\* and some notification result.
EscalateEnvs ==
  LET unreached == Err("NO_BASE_URL", "VOCAREUM_BASE_URL not set") IN
  { [llm |-> l, append_up |-> FALSE, ticket_up |-> TRUE, vocareum |-> unreached] :
      l \in LLMOutcomes(ReasonReplies) }
    \cup { [llm |-> l, append_up |-> TRUE, ticket_up |-> FALSE, vocareum |-> unreached] :
              l \in LLMOutcomes(ReasonReplies) }
    \cup { [llm |-> l, append_up |-> TRUE, ticket_up |-> TRUE, vocareum |-> v] :
              l \in LLMOutcomes(ReasonReplies), v \in VocareumOutcomes }

Escalate ==
  /\ pc = "escalate"
  /\ \E env \in EscalateEnvs :
       LET e == escalate(udahub, GetOr(state.ticket_id, "unknown"), env)
       IN
         /\ state' = _node_escalate(state, e)
         /\ udahub' = e.db
         /\ seen' = [node |-> "escalate", before |-> state, raised |-> e.raised,
                     append_up |-> env.append_up, ticket_up |-> env.ticket_up,
                     attempted |-> e.attempted, len0 |-> seen.len0]
  /\ pc' = "end"
  /\ trace' = Append(trace, "escalate")
  /\ UNCHANGED <<cultpass, calls>>

Next ==
  \/ Prepare
  \/ Classify
  \/ RouteAfterClassify
  \/ Resolve
  \/ RouteAfterResolve
  \/ Ops
  \/ Escalate

Spec == Init /\ [][Next]_vars

(* ------------------ successive runs on the same thread ------------------ *)

MaxRuns == 2

\* The runs a thread has started: the first, and one for each later invoke.
Runs == 1 + Cardinality({ k \in 1..Len(trace) : trace[k] = "invoke" })

\* The conversation a caller hands the graph on a later call of the thread.
NextMessages == { <<Human(<<"how", WS, "Login">>)>> }

\* The first call of a thread: a conversation of one human message.
InitThread ==
  /\ state \in { s \in InitStates :
                   /\ s.messages = Some(<<Human(<<"reserve">>)>>)
                   /\ s.input = None
                   /\ s.min_confidence = None
                   /\ s.ticket_id = Some("t1") }
  /\ pc = "prepare"
  /\ trace = <<>>
  /\ seen = [node |-> "none"]
  /\ cultpass = InitCultpass(1, 2)
  /\ udahub = InitUdahub
  /\ calls = NoCalls

\* The compiled graph invoked again with the same thread_id once the previous
\* run has ended: the checkpointer's saved state is loaded, the keys of the
\* call's input (messages) overwrite their channels, every other key keeps
\* the value the previous run left, and the run starts at the entry point.
Invoke ==
  /\ pc = "end"
  /\ Runs < MaxRuns
  /\ \E m \in NextMessages :
       state' = [state EXCEPT !.messages = Some(m)]
  /\ pc' = "prepare"
  /\ trace' = Append(trace, "invoke")
  /\ seen' = [node |-> "invoke", before |-> state]
  /\ UNCHANGED <<cultpass, udahub, calls>>

NextThread == Next \/ Invoke

SpecThread == InitThread /\ [][NextThread]_vars

(* ----------------- concurrent calls on the data store ------------------ *)

NumCalls == 2

Procs == 1..NumCalls

\* Calls of reserve_experience made at the same time by different requests
\* (each run owns its state; only the data store is shared).
InitConc ==
  /\ \E slots1 \in 1..2, quota \in 2..3 : cultpass = InitCultpass(slots1, quota)
  /\ calls \in [Procs -> { Frame("reserve", u, e, NoneId) :
                             u \in {"a4ab87", "u2", "u3"}, e \in {"e1", "e2"} }]
  /\ seen = [node |-> "calls", db0 |-> cultpass]
  /\ state \in { s \in InitStates : s.messages = None /\ s.input = None
                                      /\ s.min_confidence = None /\ s.account_id = None }
  /\ pc = "idle"
  /\ trace = <<>>
  /\ udahub = InitUdahub

\* The next data-store access of call p.
CallStep(p) ==
  /\ calls[p].pc # "done"
  /\ LET n == step(calls[p], cultpass) IN
       /\ calls' = [calls EXCEPT ![p] = n.f]
       /\ cultpass' = n.db
  /\ UNCHANGED <<state, pc, trace, seen, udahub>>

NextConc == \E p \in Procs : CallStep(p)

SpecConc == InitConc /\ [][NextConc]_vars

(* ------------- concurrent cancellations on the data store -------------- *)

\* Calls of cancel_reservation made at the same time by different requests,
\* on the reservation r1 of a4ab87 or on one that does not exist (r9), by its
\* owner or by another user.
InitCancel ==
  /\ \E slots1 \in 0..2 : cultpass = InitCultpass(slots1, 2)
  /\ calls \in [Procs -> { Frame("cancel", u, NoneId, rid) :
                             u \in {"a4ab87", "u3"}, rid \in {"r1", "r9"} }]
  /\ seen = [node |-> "calls", db0 |-> cultpass]
  /\ state \in { s \in InitStates : s.messages = None /\ s.input = None
                                      /\ s.min_confidence = None /\ s.account_id = None }
  /\ pc = "idle"
  /\ trace = <<>>
  /\ udahub = InitUdahub

SpecCancel == InitCancel /\ [][NextConc]_vars

(* ----------------- successive calls on the data store ------------------ *)

MaxCalls == 3

SeqUsers == {"a4ab87", "u3"}

SeqReservations == {"r1", "r2", "r9"}

\* The arguments of the reserve_experience calls: users of every kind (u9 is
\* no user) and experiences with slots, without slots and unknown (e9).
ReserveUsers == {"a4ab87", "u2", "u4", "u5", "u9"}

ReserveExperiences == {"e1", "e2", "e9"}

\* The data store before a series of tool calls made one after the other,
\* each returning before the next starts.
InitSeq ==
  /\ \E slots1 \in 0..1, quota \in 1..2 : cultpass = InitCultpass(slots1, quota)
  /\ calls = NoCalls
  /\ seen = [node |-> "none", db0 |-> cultpass]
  /\ state \in { s \in InitStates : s.messages = None /\ s.input = None
                                      /\ s.min_confidence = None /\ s.account_id = None }
  /\ pc = "idle"
  /\ trace = <<>>
  /\ udahub = InitUdahub

\* One whole call of reserve_experience.
CallReserve ==
  /\ Len(trace) < MaxCalls
  /\ \E u \in ReserveUsers, e \in ReserveExperiences :
       LET r == reserve_experience(cultpass, u, e) IN
         /\ cultpass' = r.db
         /\ seen' = [node |-> "reserve_experience", user_id |-> u, experience_id |-> e,
                     reservation_id |-> NoneId, ret |-> r.ret, db_before |-> cultpass,
                     db0 |-> seen.db0]
         /\ trace' = Append(trace, [op |-> "reserve_experience", user_id |-> u,
                                    reservation_id |-> NoneId, ok |-> r.ret.ok])
  /\ UNCHANGED <<state, pc, udahub, calls>>

\* One whole call of cancel_reservation.
CallCancel ==
  /\ Len(trace) < MaxCalls
  /\ \E u \in SeqUsers, rid \in SeqReservations :
       LET r == cancel_reservation(cultpass, rid, u) IN
         /\ cultpass' = r.db
         /\ seen' = [node |-> "cancel_reservation", user_id |-> u, experience_id |-> NoneId,
                     reservation_id |-> rid, ret |-> r.ret, db_before |-> cultpass,
                     db0 |-> seen.db0]
         /\ trace' = Append(trace, [op |-> "cancel_reservation", user_id |-> u,
                                    reservation_id |-> rid, ok |-> r.ret.ok])
  /\ UNCHANGED <<state, pc, udahub, calls>>

NextSeq == CallReserve \/ CallCancel

SpecSeq == InitSeq /\ [][NextSeq]_vars

(* -------------------- calls of the dispatcher alone -------------------- *)

\* Contexts a caller can hand operate: the one _node_ops builds, an empty
\* one, and one with keys outside the whitelist.
OpsContexts ==
  { [k \in {"user_id", "external_user_id", "experience_id", "reservation_id",
            "account_id"} |->
       CASE k \in {"user_id", "external_user_id"} -> "u3"
         [] k = "account_id" -> "cultpass"
         [] OTHER -> NoneId],
    EmptyArgs,
    ("user_id" :> "a4ab87") @@ ("account_id" :> "cultpass") @@ ("intent" :> "reservation") }

InitOps ==
  /\ \E slots1 \in 0..1 : cultpass = InitCultpass(slots1, 2)
  /\ calls = NoCalls
  /\ seen = [node |-> "none"]
  /\ state \in { s \in InitStates : s.messages = None /\ s.input = None
                                      /\ s.min_confidence = None /\ s.account_id = None }
  /\ pc = "idle"
  /\ trace = <<>>
  /\ udahub = InitUdahub

\* One call of operate with some context, completion outcome and data-store
\* availability.
Operate ==
  /\ Len(trace) < MaxCalls
  /\ \E context \in OpsContexts, llm \in OpsLLMOutcomes :
     \E db_up \in IF ReachesExecutor(llm) THEN BOOLEAN ELSE {TRUE} :
       LET r == operate(context, llm, cultpass, db_up) IN
         /\ cultpass' = r.db
         /\ seen' = [node |-> "operate", context |-> context, llm |-> llm,
                     db_up |-> db_up, raised |-> r.raised, ret |-> r.ret,
                     invoked |-> r.invoked, merged |-> r.merged, db_before |-> cultpass]
  /\ trace' = Append(trace, "operate")
  /\ UNCHANGED <<state, pc, udahub, calls>>

NextOps == Operate

SpecOps == InitOps /\ [][NextOps]_vars

(* ------------------- calls of the routing step alone ------------------- *)

\* The intent a state can carry when the routing step is called: none, one
\* of the classifier's, or one the routing table does not know.
RouteIntents == {None} \cup { Some(i) : i \in Intents \cup {"billing"} }

InitRoute ==
  /\ state \in { [s EXCEPT !.intent = i, !.input = Some(<<"hello">>)] :
                   s \in { t \in InitStates : t.messages = None /\ t.input = None
                                               /\ t.min_confidence = None },
                   i \in RouteIntents }
  /\ pc = "idle"
  /\ trace = <<>>
  /\ seen = [node |-> "none"]
  /\ cultpass = InitCultpass(1, 2)
  /\ udahub = InitUdahub
  /\ calls = NoCalls

\* One call of intelligent_route with some outcome of its completion call.
Route ==
  /\ trace = <<>>
  /\ \E llm \in LLMOutcomes(RouteReplies) :
       seen' = [node |-> "intelligent_route", llm |-> llm,
                ret |-> intelligent_route(state, llm)]
  /\ trace' = <<"intelligent_route">>
  /\ UNCHANGED <<state, pc, cultpass, udahub, calls>>

NextRoute == Route

SpecRoute == InitRoute /\ [][NextRoute]_vars

(* ------------------------------- claims ------------------------------- *)

\* C1: classify returns an intent of the closed set and never raises, whatever
\* the completion call does; it returns a label other than unknown only on a
\* successful completion whose first whitespace-delimited token, lowercased,
\* is that label.
ThmC1 ==
  seen.node = "classify" =>
    /\ ~seen.ret.raised
    /\ seen.ret.intent \in Intents
    /\ seen.ret.intent # "unknown" =>
         /\ seen.llm.kind = "ok"
         /\ split(seen.llm.content) # <<>>
         /\ lower_word(split(seen.llm.content)[1]) = seen.ret.intent

WitC1 ==
  /\ seen.node = "classify"
  /\ seen.llm = [kind |-> "ok", content |-> <<WS, "Login">>]
  /\ seen.ret.intent = "login"

\* The calls of reserve_experience have all returned.
AllDone == \A p \in Procs : calls[p].pc = "done"

CallOk(p) == Get(calls[p].ret).ok

CallCode(p) == Get(Get(calls[p].ret).error).code

\* Call q made after call p has returned, both from the initial data store.
After(p, q) ==
  reserve_experience(
    reserve_experience(seen.db0, calls[p].user_id, calls[p].experience_id).db,
    calls[q].user_id, calls[q].experience_id).ret

\* Two calls for the same experience with exactly one slot left, by users who
\* pass every other check: made one after the other, the first succeeds and
\* the second fails on the slot check alone.
LastSlotRace ==
  /\ Procs = {1, 2}
  /\ calls[1].experience_id = calls[2].experience_id
  /\ seen.db0.slots[calls[1].experience_id] = 1
  /\ \A p, q \in Procs : p # q =>
       /\ ~After(p, q).ok
       /\ Get(After(p, q).error).code = "NO_SLOTS"

\* C2: two concurrent reserve_experience calls on an experience with one slot
\* left end with exactly one success and one NO_SLOTS failure, slots_available
\* at 0 and exactly one new reservation, in every interleaving.
CexC2 ==
  (AllDone /\ LastSlotRace) =>
    /\ Cardinality({ p \in Procs : CallOk(p) }) = 1
    /\ \A p \in Procs : ~CallOk(p) => CallCode(p) = "NO_SLOTS"
    /\ cultpass.slots[calls[1].experience_id] = 0
    /\ Len(cultpass.reservations) = Len(seen.db0.reservations) + 1

\* The routing table after classify.
RoutingTable(intent) ==
  CASE intent = "unknown" -> "escalate"
    [] intent \in {"reservation", "subscription"} -> "ops"
    [] intent \in {"knowledge", "login"} -> "resolve"

\* C3: the node executed after classify is determined by the intent alone,
\* whatever the completion call of the routing step replies.
CexC3 ==
  seen.node = "route_classify" => pc = RoutingTable(Get(state.intent))

\* C4: a run whose intent is unknown goes from classify directly to escalate
\* and ends with the escalation result populated.
CexC4 ==
  (pc = "end" /\ state.intent = Some("unknown")) =>
    /\ trace = <<"prepare", "classify", "escalate">>
    /\ IsSome(state.escalation)

ResolveFailed == IsSome(state.resolver_result) /\ ~Get(state.resolver_result).ok

\* C5: a run in which resolve returns a failure executes escalate next, then
\* ends, with both resolver_result (a failure) and escalation populated.
CexC5 ==
  (pc = "end" /\ ResolveFailed) =>
    /\ trace = <<"prepare", "classify", "resolve", "escalate">>
    /\ IsSome(state.escalation)

ResolveSucceeded == IsSome(state.resolver_result) /\ Get(state.resolver_result).ok

LastMessage == GetOr(state.messages, <<>>)[Len(GetOr(state.messages, <<>>))]

\* C6: once resolve has returned success the run ends right after resolve:
\* the conditional edge leads to the end, escalate is never executed, the
\* escalation result stays unset and the last conversation entry is the
\* composed answer.
ThmC6 ==
  ResolveSucceeded =>
    /\ pc \in {"route_resolve", "end"}
    /\ seen.node = "route_resolve" => pc = "end"
    /\ trace = <<"prepare", "classify", "resolve">>
    /\ ~IsSome(state.escalation)
    /\ LastMessage = AI(Get(Get(state.resolver_result).answer))

WitC6 ==
  /\ ResolveSucceeded
  /\ pc = "end"
  /\ LastMessage = AI(<<"answer">>)

OpsSucceeded == IsSome(state.ops_result) /\ Get(state.ops_result).ok

\* C7: a run whose intent is subscription executes ops after classify; when
\* the operation succeeds ops_result is set, resolver_result is unset and the
\* last conversation entry begins with "Done:".
CexC7 ==
  (pc = "end" /\ state.intent = Some("subscription")) =>
    /\ trace = <<"prepare", "classify", "ops">>
    /\ OpsSucceeded =>
         /\ ~IsSome(state.resolver_result)
         /\ Head(LastMessage.content) = "Done:"

\* C8: every execution of the escalate node appends exactly one entry, the
\* fixed escalated notice, whether the handler returns or raises.
ThmC8 ==
  seen.node = "escalate" =>
    GetOr(state.messages, <<>>)
      = Append(GetOr(seen.before.messages, <<>>), AI(EscalatedNotice))

WitC8 ==
  /\ seen.node = "escalate"
  /\ seen.raised
  /\ Len(GetOr(state.messages, <<>>)) = 3

\* resolve returned (the knowledge store answered) with a top search score
\* below min_confidence.
LowScore ==
  /\ seen.node = "resolve"
  /\ seen.db_up
  /\ seen.search.best_score < seen.min_confidence

CarriesLowConfidence ==
  /\ ~seen.ret.ok
  /\ seen.ret.reason = "low_confidence"
  /\ seen.ret.best_score = Some(seen.search.best_score)
  /\ seen.search.results = <<>> => seen.ret.best_score = Some(0)

\* C9 as stated: with a top score below min_confidence resolve returns
\* low_confidence carrying that score, whatever the completion call produces.
CexC9 == LowScore => CarriesLowConfidence

\* C9 amended: with a top score below min_confidence (0 for an empty result
\* list) resolve returns low_confidence carrying that score whenever the
\* completion call succeeds, whatever text it returns.
ThmC9 == (LowScore /\ seen.llm.kind = "ok") => CarriesLowConfidence

WitC9 ==
  /\ LowScore
  /\ seen.llm = [kind |-> "ok", content |-> <<"answer">>]
  /\ seen.search.results = <<>>
  /\ seen.min_confidence > 0
  /\ seen.ret.reason = "low_confidence"

\* The parsed reply names an action that is not a registered operation.
UnregisteredAction ==
  /\ seen.node = "ops"
  /\ seen.llm.kind = "ok"
  /\ seen.llm.content.json = "object"
  /\ IsSome(seen.llm.content.action)
  /\ Get(seen.llm.content.action).t = "str"
  /\ Get(seen.llm.content.action).s \notin ToolNames

\* C10: when the parsed reply names an action that is not registered, operate
\* returns failure BAD_ACTION whose message is that action, no executor is
\* invoked and the data store is unchanged.
ThmC10 ==
  UnregisteredAction =>
    /\ seen.ret = Err("BAD_ACTION", Get(seen.llm.content.action).s)
    /\ seen.invoked = ""
    /\ cultpass = seen.db_before

WitC10 ==
  /\ UnregisteredAction
  /\ Get(seen.llm.content.action).s = "delete_account"
  /\ IsSome(seen.llm.content.args)
  /\ Get(seen.llm.content.args) = JsonObj("experience_id" :> "e1")

\* The row of the data store db that cancel_reservation(rid, u) looks up, or 0.
Row(db, rid, u) == find_reservation(db, rid, u)

\* The last call was cancel_reservation on a row that had the given status.
CancelOf(status) ==
  /\ seen.node = "cancel_reservation"
  /\ Row(seen.db_before, seen.reservation_id, seen.user_id) # 0
  /\ seen.db_before.reservations[Row(seen.db_before, seen.reservation_id, seen.user_id)].status
       = status

\* An earlier call of the series cancelled the same reservation successfully.
CancelledEarlier ==
  \E k \in 1..(Len(trace) - 1) :
    /\ trace[k].op = "cancel_reservation"
    /\ trace[k].reservation_id = seen.reservation_id
    /\ trace[k].user_id = seen.user_id
    /\ trace[k].ok

\* C11: cancel_reservation on a reserved reservation of the caller succeeds,
\* sets only that reservation's status to cancelled and raises the slot count
\* of its experience by exactly one, leaving every other slot count alone; a
\* cancel of a reservation that is already cancelled fails with INVALID_STATE
\* and leaves the data store as it was.
ThmC11 ==
  /\ CancelOf("reserved") =>
        LET i == Row(seen.db_before, seen.reservation_id, seen.user_id)
            e == seen.db_before.reservations[i].experience_id
        IN /\ seen.ret.ok
           /\ Get(seen.ret.data).status = "cancelled"
           /\ cultpass.reservations =
                [seen.db_before.reservations EXCEPT ![i].status = "cancelled"]
           /\ cultpass.slots = [seen.db_before.slots EXCEPT ![e] = @ + 1]
           /\ cultpass.users = seen.db_before.users
           /\ cultpass.subs = seen.db_before.subs
  /\ CancelOf("cancelled") =>
        /\ ~seen.ret.ok
        /\ Get(seen.ret.error).code = "INVALID_STATE"
        /\ cultpass = seen.db_before

\* A second cancel of a reservation that an earlier call of the series
\* cancelled, the reservation having been created by the series itself.
WitC11 ==
  /\ CancelOf("cancelled")
  /\ CancelledEarlier
  /\ seen.reservation_id = "r2"
  /\ ~seen.ret.ok

Has(field) == IsSome(field)

Executed(node) == \E k \in 1..Len(trace) : trace[k] = node

\* C12 as stated: at the end of every run exactly one of resolver_result and
\* ops_result is populated.  It fails on the run prepare, classify, escalate.
CexC12 ==
  pc = "end" => (Has(state.resolver_result) # Has(state.ops_result))

\* C12: at the end of every run resolver_result and ops_result are never both
\* populated; resolver_result is populated exactly when resolve executed and
\* ops_result exactly when ops executed, so neither is populated exactly when
\* classify routed straight to escalate.
ThmC12 ==
  pc = "end" =>
    /\ ~(Has(state.resolver_result) /\ Has(state.ops_result))
    /\ Has(state.resolver_result) <=> Executed("resolve")
    /\ Has(state.ops_result) <=> Executed("ops")
    /\ (~Has(state.resolver_result) /\ ~Has(state.ops_result))
         <=> trace = <<"prepare", "classify", "escalate">>

\* A run that ended after a direct escalation with neither result populated.
WitC12 ==
  /\ pc = "end"
  /\ trace = <<"prepare", "classify", "escalate">>
  /\ ~Has(state.resolver_result)
  /\ ~Has(state.ops_result)

\* C13: in every state of a run that starts without an escalation result,
\* the escalation result is populated only if the escalate node has executed;
\* prepare, classify, resolve, ops and the conditional edges leave it as it was.
ThmC13 ==
  /\ Has(state.escalation) => Executed("escalate")
  /\ seen.node \in {"prepare", "classify", "route_classify", "resolve",
                     "route_resolve", "ops"}
       => state.escalation = seen.before.escalation

\* A run whose resolve failed and whose escalate node then set the result.
WitC13 ==
  /\ pc = "end"
  /\ Has(state.escalation)
  /\ trace = <<"prepare", "classify", "resolve", "escalate">>
  /\ ~Get(state.resolver_result).ok

IsPrefix(p, q) == Len(p) <= Len(q) /\ SubSeq(q, 1, Len(p)) = p

Conversation(st) == GetOr(st.messages, <<>>)

\* C14: after every node (and every conditional edge) the conversation has
\* the conversation before that node as a prefix.
ThmC14 ==
  seen.node \in {"prepare", "classify", "route_classify", "resolve",
                 "route_resolve", "ops", "escalate"}
    => IsPrefix(Conversation(seen.before), Conversation(state))

\* The escalate node appended to a conversation of two entries or more.
WitC14 ==
  /\ seen.node = "escalate"
  /\ Len(Conversation(seen.before)) >= 2
  /\ Len(Conversation(state)) = Len(Conversation(seen.before)) + 1

RunShapes ==
  { <<"prepare", "classify", "ops">>,
    <<"prepare", "classify", "resolve">>,
    <<"prepare", "classify", "resolve", "escalate">>,
    <<"prepare", "classify", "escalate">> }

\* C15: the nodes executed so far are a prefix of one of the four run shapes,
\* a run that reached the end executed exactly one of them, and a run whose
\* last node is ops or escalate has ended (whatever ops returned).
ThmC15 ==
  /\ \E shape \in RunShapes : IsPrefix(trace, shape)
  /\ pc = "end" => trace \in RunShapes
  /\ (trace # <<>> /\ trace[Len(trace)] \in {"ops", "escalate"}) => pc = "end"
  /\ pc = "ops" => trace = <<"prepare", "classify">>
  /\ pc = "escalate" => trace \in { <<"prepare", "classify">>,
                                     <<"prepare", "classify", "resolve">> }

\* A run that ended right after an ops node whose operate call failed.
WitC15 ==
  /\ pc = "end"
  /\ trace = <<"prepare", "classify", "ops">>
  /\ ~Get(state.ops_result).ok

\* The engine has a node or a conditional edge left to run.
Running ==
  pc \in {"prepare", "classify", "route_classify", "resolve", "route_resolve",
          "ops", "escalate"}

\* C16: every run terminates at the end node: a run with no node or edge left
\* to run has reached end, after at most four node executions.  It fails when
\* the knowledge search fails: the exception leaves resolve and the run stops
\* before end.
CexC16 ==
  ~Running => (pc = "end" /\ Len(trace) <= 4)

ErrorCodes ==
  {"LLM_ERROR", "BAD_ACTION", "LLM_OR_TOOL_ERROR", "NOT_FOUND", "NO_SUB",
   "USER_NOT_FOUND", "BLOCKED", "INACTIVE_SUB", "NO_QUOTA", "EXP_NOT_FOUND",
   "NO_SLOTS", "INVALID_STATE"}

\* C17: operate never raises: for every completion outcome, context and
\* executor outcome it returns a record with an ok flag that, when ok is
\* false, carries an error with a code and a message.
ThmC17 ==
  seen.node = "operate" =>
    /\ ~seen.raised
    /\ seen.ret.ok \in BOOLEAN
    /\ ~seen.ret.ok =>
         /\ IsSome(seen.ret.error)
         /\ DOMAIN Get(seen.ret.error) = {"code", "message"}
         /\ Get(seen.ret.error).code \in ErrorCodes

\* The lambda of reserve_experience raised KeyError on a missing required
\* argument and operate returned the error dict of its except clause.
WitC17 ==
  /\ seen.node = "operate"
  /\ seen.invoked = "reserve_experience"
  /\ ~(RequiredArgs(seen.invoked) \subseteq DOMAIN seen.merged)
  /\ ~seen.ret.ok
  /\ Get(seen.ret.error).code = "LLM_OR_TOOL_ERROR"

\* The text of the entry a node appended last.
Appended == Conversation(state)[Len(Conversation(state))].content

MentionsErrorCode(text) == \E k \in 1..Len(text) : text[k] \in ErrorCodes

\* C18: no text that a node appends to the conversation contains an error
\* code or error record of a result.  It fails in the ops node, which formats
\* the error dict of a failed operate call into its message.
CexC18 ==
  (seen.node \in {"resolve", "ops", "escalate"}
     /\ Len(Conversation(state)) > Len(Conversation(seen.before)))
    => ~MentionsErrorCode(Appended)

LastAssistant ==
  \E k \in (seen.len0 + 1)..Len(Conversation(state)) :
    Conversation(state)[k].role = "ai"

\* C19: every run that reaches the end node has appended at least one
\* assistant message after the conversation the caller supplied.
ThmC19 ==
  pc = "end" => LastAssistant

\* A run ended by an escalate node whose handler raised, on a conversation
\* the caller supplied with one human entry.
WitC19 ==
  /\ pc = "end"
  /\ seen.node = "escalate"
  /\ seen.raised
  /\ seen.len0 = 1
  /\ trace = <<"prepare", "classify", "escalate">>
  /\ Len(Conversation(state)) = 2

\* The text of the last entry of the human role, or the empty text.
RECURSIVE LastHuman(_)
LastHuman(messages) ==
  IF messages = <<>> THEN <<>>
  ELSE IF messages[Len(messages)].role = "human"
    THEN messages[Len(messages)].content
    ELSE LastHuman(SubSeq(messages, 1, Len(messages) - 1))

\* C20: when input is absent or empty, prepare sets it to the text of the
\* last human entry of the conversation, skipping entries of other roles,
\* and to the empty text when there is none.  It fails on a conversation that
\* ends with an assistant entry: prepare takes that entry's text.
CexC20 ==
  (seen.node = "prepare" /\ NoInput(seen.before))
    => state.input = Some(LastHuman(Conversation(seen.before)))

\* A field that prepare leaves alone when the caller supplied it and sets to
\* the default otherwise.
KeptOrDefaulted(old, new, default) ==
  IF IsSome(old) THEN new = old ELSE new = Some(default)

\* C21: prepare leaves a caller-supplied non-empty input and caller-supplied
\* account_id, user_id, min_confidence and ticket_id unchanged and fills the
\* absent ones with cultpass, a4ab87, 0.6 and unknown; no later node or
\* conditional edge changes account_id, user_id, ticket_id or min_confidence.
ThmC21 ==
  /\ seen.node = "prepare" =>
       /\ ~NoInput(seen.before) => state.input = seen.before.input
       /\ KeptOrDefaulted(seen.before.account_id, state.account_id, "cultpass")
       /\ KeptOrDefaulted(seen.before.user_id, state.user_id, "a4ab87")
       /\ KeptOrDefaulted(seen.before.min_confidence, state.min_confidence, 600)
       /\ KeptOrDefaulted(seen.before.ticket_id, state.ticket_id, "unknown")
  /\ seen.node \in {"classify", "route_classify", "resolve", "route_resolve",
                    "ops", "escalate"} =>
       /\ state.account_id = seen.before.account_id
       /\ state.user_id = seen.before.user_id
       /\ state.ticket_id = seen.before.ticket_id
       /\ state.min_confidence = seen.before.min_confidence

\* prepare ran on a state whose caller supplied the input, the identifiers
\* and a threshold different from the default.
WitC21 ==
  /\ seen.node = "prepare"
  /\ ~NoInput(seen.before)
  /\ seen.before.user_id = Some("u3")
  /\ seen.before.min_confidence = Some(1000)
  /\ state.user_id = Some("u3")

\* The model replied one of the three route names, up to case and
\* surrounding whitespace.
NamesRoute(llm) ==
  /\ llm.kind = "ok"
  /\ \E k \in 1..Len(llm.content) :
       /\ llm.content[k] \in {"escalate", "ops", "OPS", "resolve"}
       /\ \A j \in 1..Len(llm.content) : j # k => llm.content[j] = WS

\* The rule-based route of a state: the routing table on a known intent,
\* escalate on a missing or unrecognised one.
RuleRoute(st) ==
  IF IsSome(st.intent) /\ Get(st.intent) \in Intents
    THEN RoutingTable(Get(st.intent))
    ELSE "escalate"

\* C22: the routing step always returns escalate, ops or resolve; when its
\* completion call fails, raises or replies anything but one of those names
\* (trimmed, lowercased), it returns the rule-based route of the intent, a
\* missing or unrecognised intent giving escalate.
ThmC22 ==
  seen.node = "intelligent_route" =>
    /\ seen.ret \in {"escalate", "ops", "resolve"}
    /\ ~NamesRoute(seen.llm) => seen.ret = RuleRoute(state)

\* The model replied a word that is no route on a state without an intent.
WitC22 ==
  /\ seen.node = "intelligent_route"
  /\ seen.llm.kind = "ok"
  /\ seen.llm.content = <<"hello">>
  /\ state.intent = None
  /\ seen.ret = "escalate"

\* The trimmed reply is the escalation token in some letter case.
IsEscalationToken(content) ==
  Len(content) = 1 /\ content[1] \in {"ESCALATE", "escalate"}

\* The resolve node ran with the search and the completion call succeeding.
ResolveBothOk ==
  /\ seen.node = "resolve"
  /\ seen.db_up
  /\ seen.llm.kind = "ok"

\* C23: when search and completion both succeed, resolve succeeds exactly
\* when the top score is at least min_confidence and the trimmed reply is not
\* the escalation token in any letter case; a success carries the reply, the
\* snippet list and the top score, and every other case is low_confidence
\* carrying the top score and the snippet list.
ThmC23 ==
  ResolveBothOk =>
    LET content == strip(seen.llm.content)
        best == seen.search.best_score
        accept == best >= seen.min_confidence /\ ~IsEscalationToken(content)
    IN /\ seen.ret.ok <=> accept
       /\ seen.ret.best_score = Some(best)
       /\ seen.ret.results = Some(seen.search.results)
       /\ seen.ret.ok => seen.ret.answer = Some(content)
       /\ ~seen.ret.ok => seen.ret.reason = "low_confidence"

\* resolve succeeded with a top score exactly equal to min_confidence.
WitC23 ==
  /\ ResolveBothOk
  /\ seen.ret.ok
  /\ seen.search.best_score = seen.min_confidence
  /\ seen.search.results # <<>>

\* C24: resolve never raises and maps each infrastructure failure to its own
\* reason: a failing search gives search_failed with no completion call, a
\* non-success completion llm_failed, a raising completion llm_exception.  It
\* fails on a failing search: knowledge_search raises and resolve lets the
\* exception through.
CexC24 ==
  seen.node = "resolve" =>
    /\ ~seen.ret.raised
    /\ ~seen.db_up => (seen.ret.reason = "search_failed" /\ seen.llm = NoLLM)
    /\ (seen.db_up /\ seen.llm.kind = "fail") => seen.ret.reason = "llm_failed"
    /\ (seen.db_up /\ seen.llm.kind = "raise") => seen.ret.reason = "llm_exception"

\* The reply is no JSON object, or an object without the action key or
\* without the args key.
Malformed(doc) ==
  \/ doc.json # "object"
  \/ ~IsSome(doc.action)
  \/ ~IsSome(doc.args)

\* C25: on a malformed reply operate returns a typed failure whose code is
\* not BAD_ACTION and invokes no executor.  It fails on an object without the
\* action key (BAD_ACTION) and on one without the args key (the executor runs
\* on the context alone).
CexC25 ==
  (seen.node = "operate" /\ seen.llm.kind = "ok" /\ Malformed(seen.llm.content)) =>
    /\ ~seen.ret.ok
    /\ Get(seen.ret.error).code # "BAD_ACTION"
    /\ seen.invoked = ""

\* The args object the model supplied ({} when the key is missing).
SuppliedArgs(doc) == IF IsSome(doc.args) THEN Get(doc.args).m ELSE EmptyArgs

Whitelist == {"user_id", "external_user_id", "experience_id", "reservation_id"}

\* C26: the argument set operate passes to the executor is the context
\* restricted to the whitelisted keys overridden by the model-supplied args:
\* a key of both carries the model's value, and a context key outside the
\* whitelist is passed only if the model supplies it.
ThmC26 ==
  (seen.node = "operate" /\ seen.invoked # "") =>
    LET args == SuppliedArgs(seen.llm.content)
        context == seen.context
        merged == seen.merged
    IN /\ \A k \in DOMAIN args : k \in DOMAIN merged /\ merged[k] = args[k]
       /\ \A k \in (DOMAIN context) \ (DOMAIN args) :
            IF k \in Whitelist
              THEN k \in DOMAIN merged /\ merged[k] = context[k]
              ELSE k \notin DOMAIN merged
       /\ DOMAIN merged \subseteq (DOMAIN context) \cup (DOMAIN args)

\* An executor was called with the model's user_id in place of the
\* context's, and without the context's account_id.
WitC26 ==
  /\ seen.node = "operate"
  /\ seen.invoked # ""
  /\ "account_id" \in DOMAIN seen.context
  /\ "user_id" \in DOMAIN seen.context
  /\ "user_id" \in DOMAIN SuppliedArgs(seen.llm.content)
  /\ SuppliedArgs(seen.llm.content)["user_id"] # seen.context["user_id"]
  /\ seen.merged["user_id"] = SuppliedArgs(seen.llm.content)["user_id"]
  /\ "account_id" \notin DOMAIN seen.merged

\* The number of reserved-status reservations of user u in the data store db
\* that were created in the current month.
UsedQuota(db, u) ==
  Cardinality({ i \in 1..Len(db.reservations) :
                  /\ db.reservations[i].user_id = u
                  /\ db.reservations[i].status = "reserved"
                  /\ db.reservations[i].this_month })

\* The conditions under which reserve_experience(u, e) is to fail on db.
MustFail(db, u, e) ==
  \/ u \notin DOMAIN db.users
  \/ db.users[u].is_blocked
  \/ u \notin DOMAIN db.subs
  \/ db.subs[u].status # "active"
  \/ db.subs[u].monthly_quota - UsedQuota(db, u) <= 0
  \/ e \notin DOMAIN db.slots
  \/ db.slots[e] <= 0

\* C27: reserve_experience fails with a typed error and leaves every slot
\* count and the reservations unchanged when the user is unknown or blocked,
\* the subscription is missing or not active, no quota remains, the
\* experience does not exist or has no slot left; in every other case it
\* succeeds, lowers that experience's slot count by exactly one and adds
\* exactly one reserved reservation of that user and experience.
ThmC27 ==
  seen.node = "reserve_experience" =>
    LET db == seen.db_before
        u == seen.user_id
        e == seen.experience_id
    IN IF MustFail(db, u, e)
         THEN /\ ~seen.ret.ok
              /\ Get(seen.ret.error).code \in
                   {"USER_NOT_FOUND", "BLOCKED", "INACTIVE_SUB", "NO_QUOTA",
                    "EXP_NOT_FOUND", "NO_SLOTS"}
              /\ cultpass = db
         ELSE /\ seen.ret.ok
              /\ cultpass.slots = [db.slots EXCEPT ![e] = @ - 1]
              /\ Len(cultpass.reservations) = Len(db.reservations) + 1
              /\ SubSeq(cultpass.reservations, 1, Len(db.reservations)) = db.reservations
              /\ LET new == cultpass.reservations[Len(cultpass.reservations)] IN
                   /\ new.user_id = u
                   /\ new.experience_id = e
                   /\ new.status = "reserved"
                   /\ new.reservation_id = Get(seen.ret.data).reservation_id
              /\ cultpass.users = db.users
              /\ cultpass.subs = db.subs

\* The call failed for want of quota on an experience that had a free slot.
WitC27 ==
  /\ seen.node = "reserve_experience"
  /\ ~seen.ret.ok
  /\ Get(seen.ret.error).code = "NO_QUOTA"
  /\ seen.db_before.slots[seen.experience_id] > 0
  /\ cultpass = seen.db_before

Attempts(call) ==
  Cardinality({ k \in 1..Len(seen.attempted) : seen.attempted[k] = call })

\* C28: in the escalation handler a failure of the step that appends the
\* system message to the ticket's history does not abort escalation: the
\* status update and the notification are still attempted and the aggregate
\* is returned.  It fails: the store error of append_ticket_message leaves
\* escalate before either is attempted.
CexC28 ==
  (seen.node = "escalate" /\ ~seen.append_up) =>
    /\ ~seen.raised
    /\ Attempts("escalate_ticket") = 1
    /\ Attempts("escalate_to_vocareum") = 1
    /\ Has(state.escalation)

\* C29: in the escalation handler the ticketing update and the notification
\* are each attempted exactly once whatever the outcome of the other, and the
\* aggregate returned carries both sub-results and the reason.  It fails when
\* escalate_ticket meets a store error: the notification is never attempted
\* and no aggregate is returned.
CexC29 ==
  (seen.node = "escalate" /\ seen.append_up) =>
    /\ ~seen.raised
    /\ Attempts("escalate_ticket") = 1
    /\ Attempts("escalate_to_vocareum") = 1
    /\ Has(state.escalation)
    /\ DOMAIN Get(state.escalation) = {"udahub", "vocareum", "reason"}

\* The reserved-status reservations of experience e among the rows of db
\* after the first n.
ReservedAfter(db, e, n) ==
  Cardinality({ i \in (n + 1)..Len(db.reservations) :
                  /\ db.reservations[i].experience_id = e
                  /\ db.reservations[i].status = "reserved" })

\* C30 as stated: slots_available plus the number of reserved reservations
\* created by the calls equals the initial slots_available.  It fails when a
\* reservation that existed before the calls is cancelled.
CexC30 ==
  \A e \in DOMAIN cultpass.slots :
    /\ cultpass.slots[e] >= 0
    /\ cultpass.slots[e] + ReservedAfter(cultpass, e, Len(seen.db0.reservations))
         = seen.db0.slots[e]

\* C30: under any series of non-overlapping reserve_experience and
\* cancel_reservation calls every slot count stays at least 0, and for each
\* experience the slot count plus the number of its reserved reservations,
\* those that existed before the calls included, stays what it was.
ThmC30 ==
  \A e \in DOMAIN cultpass.slots :
    /\ cultpass.slots[e] >= 0
    /\ cultpass.slots[e] + ReservedAfter(cultpass, e, 0)
         = seen.db0.slots[e] + ReservedAfter(seen.db0, e, 0)

\* The series created a reservation and cancelled the one that existed
\* before it.
WitC30 ==
  /\ Len(cultpass.reservations) > Len(seen.db0.reservations)
  /\ seen.db0.reservations[1].status = "reserved"
  /\ cultpass.reservations[1].status = "cancelled"
  /\ cultpass.reservations[Len(cultpass.reservations)].status = "reserved"

\* The quota that user u has left in the data store db.
RemainingQuota(db, u) == db.subs[u].monthly_quota - UsedQuota(db, u)

\* Two reserve_experience calls by the same user, who passes every check and
\* has exactly one unit of quota left, on experiences with a free slot for
\* each of the calls.
LastQuotaRace ==
  /\ Procs = {1, 2}
  /\ calls[1].user_id = calls[2].user_id
  /\ calls[1].user_id \in DOMAIN seen.db0.subs
  /\ ~seen.db0.users[calls[1].user_id].is_blocked
  /\ seen.db0.subs[calls[1].user_id].status = "active"
  /\ RemainingQuota(seen.db0, calls[1].user_id) = 1
  /\ \A p \in Procs :
       seen.db0.slots[calls[p].experience_id]
         >= Cardinality({ q \in Procs : calls[q].experience_id = calls[p].experience_id })

\* C31: in every interleaving of concurrent reserve_experience calls by one
\* user the user's reserved reservations of the current month never exceed
\* the monthly quota, and with one unit of quota left two concurrent calls
\* end with exactly one success and one NO_QUOTA failure.  It fails when both
\* calls read the remaining quota before either commits.
CexC31 ==
  /\ \A u \in DOMAIN cultpass.subs :
       UsedQuota(cultpass, u) <= cultpass.subs[u].monthly_quota
  /\ (AllDone /\ LastQuotaRace) =>
       /\ Cardinality({ p \in Procs : CallOk(p) }) = 1
       /\ \A p \in Procs : ~CallOk(p) => CallCode(p) = "NO_QUOTA"

\* Two cancel_reservation calls by the owner on the same reservation, which
\* is in reserved status.
SameReservationRace ==
  /\ Procs = {1, 2}
  /\ \A p \in Procs : calls[p].op = "cancel"
  /\ calls[1].reservation_id = calls[2].reservation_id
  /\ calls[1].user_id = calls[2].user_id
  /\ Row(seen.db0, calls[1].reservation_id, calls[1].user_id) # 0
  /\ seen.db0.reservations[Row(seen.db0, calls[1].reservation_id,
                               calls[1].user_id)].status = "reserved"

\* C32: in every interleaving of two concurrent cancel_reservation calls on
\* the same reserved reservation exactly one succeeds, the other fails with
\* INVALID_STATE and the experience's slot count rises by exactly one.  It
\* fails when both calls read the reservation before either writes.
CexC32 ==
  (AllDone /\ SameReservationRace) =>
    LET i == Row(seen.db0, calls[1].reservation_id, calls[1].user_id)
        e == seen.db0.reservations[i].experience_id
    IN /\ Cardinality({ p \in Procs : CallOk(p) }) = 1
       /\ \A p \in Procs : ~CallOk(p) => CallCode(p) = "INVALID_STATE"
       /\ cultpass.slots[e] = seen.db0.slots[e] + 1

\* C33: when the compiled workflow is invoked again with the same thread
\* identifier, the run processes that call's message: after prepare its input
\* is the last human message of that call's conversation.  It fails: the
\* input the previous run left in the saved state is not empty, so prepare
\* keeps it.
CexC33 ==
  (seen.node = "prepare" /\ Executed("invoke")) =>
    state.input = Some(LastHuman(Conversation(state)))

====
